---------------------------- MODULE Spec2Model ----------------------------
(***************************************************************************)
(* Model of auth0/management/resource_servers.py: the ResourceServers      *)
(* wrapper.  Two instances are constructed, each used by its own thread.   *)
(* A call of a handler builds its URL with _url, hands one request to the  *)
(* instance's RestClient, and later passes the client's outcome (a return  *)
(* value or a raised error) on to the caller.                              *)
(*                                                                         *)
(* Python values: a str is a TLA+ string; Optional[x] is <<>> for None and *)
(* <<x>> for a value; a dict body is a set of <<key, value>> pairs.        *)
(***************************************************************************)
EXTENDS Integers, Sequences, FiniteSets, TLC

\* ------------------------------------------------------------ values
None == <<>>
Some(v) == <<v>>

\* A call of a handler by a caller: the operation and the arguments in its
\* signature (an argument the operation does not take is left at None, {} or FALSE).
Frame(op, id, body, page, per_page, include_totals) ==
    [op |-> op, id |-> id, body |-> body, page |-> page, per_page |-> per_page,
     include_totals |-> include_totals]

NoFrame == Frame("none", None, {}, None, None, FALSE)

\* A verb call as the REST client receives it; a keyword not passed is None.
Request(verb, url, params, data) ==
    [verb |-> verb, url |-> url, params |-> params, data |-> data]

\* ------------------------------------------------------------ inputs
Insts == {1, 2}

Domains == {"a.auth0.com", "b.auth0.com"}
Protocols == {"https", "http"}
Token == "jwt"
\* id arguments: None, the empty string, a plain id, an id holding a slash
Ids == {None, Some(""), Some("rs1"), Some("x/y")}
Bodies == {{}, {<<"name", "API">>, <<"identifier", "urn:api">>}}
Pages == {None, Some(2)}
PerPages == {None, Some(10)}
\* what a REST client verb can do: return a parsed response, or raise
Outcomes == {[kind |-> "return", value |-> "response"],
             [kind |-> "raise", value |-> "404 not found"],
             [kind |-> "raise", value |-> "429 rate limit"]}

\* ------------------------------------------------------------ construction
DefaultTelemetry == TRUE
DefaultTimeout == 5
DefaultProtocol == "https"
DefaultRestOptions == None

RestClient(jwt, telemetry, timeout, options) ==
    [jwt |-> jwt, telemetry |-> telemetry, timeout |-> timeout, options |-> options]

__init__(domain, token, telemetry, timeout, protocol, rest_options) ==
    [domain |-> domain,
     protocol |-> protocol,
     client |-> RestClient(token, telemetry, timeout, rest_options)]

\* ------------------------------------------------------------ state
VARIABLES
    inst,        \* inst[i]: the attributes of instance i (domain, protocol, client)
    pc,          \* pc[i]: "idle" | "called" (request at the client) | "done" (returned)
    frame,       \* frame[i]: the running (or last) call of thread i: op and arguments
    built,       \* built[i]: the URLs _url built during that call, in order
    sent,        \* sent[i]: the requests handed to the REST client during that call
    raised,      \* raised[i]: what the REST client returned or raised, <<>> before
    result,      \* result[i]: what the caller received, <<>> before
    constructed  \* constructed[i]: the attributes __init__ gave instance i

vars == <<inst, pc, frame, built, sent, raised, result, constructed>>

\* ------------------------------------------------------------ _url
ApiPath == "/api/v2/resource-servers"

\* Mutants of _url.
\* a trailing slash after the id
_url_trailing_slash(self, id) ==
    LET url == self.protocol \o "://" \o self.domain \o ApiPath
    IN  IF id # None THEN url \o "/" \o id[1] \o "/" ELSE url

\* the domain kept in one place shared by all instances
_url_shared_domain(self, id) ==
    LET url == self.protocol \o "://" \o inst[1].domain \o ApiPath
    IN  IF id # None THEN url \o "/" \o id[1] ELSE url

\* the scheme written into the template, the protocol attribute ignored
_url_fixed_scheme(self, id) ==
    LET url == "https" \o "://" \o self.domain \o ApiPath
    IN  IF id # None THEN url \o "/" \o id[1] ELSE url

\* `if id:` instead of `if id is not None:`
_url_truthy(self, id) ==
    LET url == self.protocol \o "://" \o self.domain \o ApiPath
    IN  IF id # None /\ id[1] # "" THEN url \o "/" \o id[1] ELSE url

_url(self, id) ==
    LET url == self.protocol \o "://" \o self.domain \o ApiPath
    IN  IF id # None THEN url \o "/" \o id[1] ELSE url

\* ------------------------------------------------------------ str(bool).lower()
str(b) == IF b THEN "True" ELSE "False"

Upper == <<"A","B","C","D","E","F","G","H","I","J","K","L","M",
           "N","O","P","Q","R","S","T","U","V","W","X","Y","Z">>
Lower == <<"a","b","c","d","e","f","g","h","i","j","k","l","m",
           "n","o","p","q","r","s","t","u","v","w","x","y","z">>

lower_char(c) ==
    IF \E k \in 1..Len(Upper) : Upper[k] = c
    THEN Lower[CHOOSE k \in 1..Len(Upper) : Upper[k] = c]
    ELSE c

\* Mutant of lower: the string left as str() made it.
lower_identity(s) == s

RECURSIVE lower(_)
lower(s) ==
    IF Len(s) = 0 THEN ""
    ELSE lower_char(SubSeq(s, 1, 1)) \o lower(SubSeq(s, 2, Len(s)))

\* ------------------------------------------------------------ the REST client's verbs
\* The calls the handlers make: post(url, data=...), get(url, params=...), get(url),
\* delete(url), patch(url, data=...).
post(url, data) == Request("POST", url, None, Some(data))
get_params(url, params) == Request("GET", url, Some(params), None)
get_url(url) == Request("GET", url, None, None)
delete_url(url) == Request("DELETE", url, None, None)
patch(url, data) == Request("PATCH", url, None, Some(data))

\* ------------------------------------------------------------ the handlers
\* Each handler's call of the client: the URLs it builds and the request it sends.
\* Mutant of create: a default field added to the payload.
create_with_default(self, body) ==
    LET url == _url(self, None)
    IN  [built |-> <<url>>, request |-> post(url, body \cup {<<"signing_alg", "RS256">>})]

create(self, body) ==
    LET url == _url(self, None)
    IN  [built |-> <<url>>, request |-> post(url, body)]

DefaultIncludeTotals == FALSE

get_all(self, page, per_page, include_totals) ==
    LET params == [page |-> page,
                   per_page |-> per_page,
                   include_totals |-> lower(str(include_totals))]
        url == _url(self, None)
    IN  [built |-> <<url>>, request |-> get_params(url, params)]

get(self, id) ==
    LET url == _url(self, id)
    IN  [built |-> <<url>>, request |-> get_url(url)]

delete(self, id) ==
    LET url == _url(self, id)
    IN  [built |-> <<url>>, request |-> delete_url(url)]

\* Mutant of update: POST instead of PATCH.
update_post(self, id, body) ==
    LET url == _url(self, id)
    IN  [built |-> <<url>>, request |-> post(url, body)]

update(self, id, body) ==
    LET url == _url(self, id)
    IN  [built |-> <<url>>, request |-> patch(url, body)]

\* Mutant of self_after: a handler rebinds self.protocol.
self_after_rebind(self, f) == [self EXCEPT !.protocol = DefaultProtocol]

\* The handlers assign no attribute of self.
self_after(self, f) == self

\* Mutant of Return: a raised error is caught and None returned.
Return_swallow(o) ==
    IF o.kind = "raise" THEN [kind |-> "return", value |-> "None"] ELSE o

\* `return self.client.<verb>(...)`: what the handler does with the client's
\* outcome o.  It passes a return value and a raised error on as they are.
Return(o) == o

\* Mutant of after_verb: a failed verb call is tried again.
after_verb_retry(o) == IF o.kind = "raise" THEN "retry" ELSE "done"

\* No try/except and no loop surrounds the verb call: after the client's
\* outcome the handler is over, whatever the outcome.
after_verb(o) == "done"

\* ------------------------------------------------------------ dispatch
Handler(self, f) ==
    CASE f.op = "create"  -> create(self, f.body)
      [] f.op = "get_all" -> get_all(self, f.page, f.per_page, f.include_totals)
      [] f.op = "get"     -> get(self, f.id)
      [] f.op = "delete"  -> delete(self, f.id)
      [] f.op = "update"  -> update(self, f.id, f.body)

\* ------------------------------------------------------------ Init
Init ==
    /\ inst \in [Insts -> {__init__(d, Token, DefaultTelemetry, DefaultTimeout, p,
                                    DefaultRestOptions) : d \in Domains, p \in Protocols}]
    /\ pc = [i \in Insts |-> "idle"]
    /\ frame = [i \in Insts |-> NoFrame]
    /\ built = [i \in Insts |-> <<>>]
    /\ sent = [i \in Insts |-> <<>>]
    /\ raised = [i \in Insts |-> <<>>]
    /\ result = [i \in Insts |-> <<>>]
    /\ constructed = inst

\* ------------------------------------------------------------ actions
\* Thread i enters a handler of instance i: the handler builds its URL and
\* hands its request to the instance's REST client.
Invoke(i, f) ==
    /\ pc[i] = "idle"
    /\ LET h == Handler(inst[i], f)
       IN  /\ built' = [built EXCEPT ![i] = h.built]
           /\ sent' = [sent EXCEPT ![i] = <<h.request>>]
    /\ frame' = [frame EXCEPT ![i] = f]
    /\ inst' = [inst EXCEPT ![i] = self_after(inst[i], f)]
    /\ raised' = [raised EXCEPT ![i] = <<>>]
    /\ result' = [result EXCEPT ![i] = <<>>]
    /\ pc' = [pc EXCEPT ![i] = "called"]
    /\ UNCHANGED constructed

Call_create(i) ==
    \E body \in Bodies : Invoke(i, Frame("create", None, body, None, None, FALSE))

Call_get_all(i) ==
    \E page \in Pages, per_page \in PerPages, include_totals \in BOOLEAN :
        Invoke(i, Frame("get_all", None, {}, page, per_page, include_totals))

Call_get(i) ==
    \E id \in Ids : Invoke(i, Frame("get", id, {}, None, None, FALSE))

Call_delete(i) ==
    \E id \in Ids : Invoke(i, Frame("delete", id, {}, None, None, FALSE))

Call_update(i) ==
    \E id \in Ids, body \in Bodies :
        Invoke(i, Frame("update", id, body, None, None, FALSE))

\* The REST client of instance i returns or raises (o), and the handler acts on it.
Complete(i) ==
    /\ pc[i] = "called"
    /\ \E o \in Outcomes :
        /\ raised' = [raised EXCEPT ![i] = <<o>>]
        /\ IF after_verb(o) = "done"
           THEN /\ result' = [result EXCEPT ![i] = <<Return(o)>>]
                /\ pc' = [pc EXCEPT ![i] = "done"]
                /\ UNCHANGED sent
           ELSE \* the handler calls the verb again
                /\ sent' = [sent EXCEPT ![i] = Append(@, Handler(inst[i], frame[i]).request)]
                /\ UNCHANGED <<result, pc>>
    /\ UNCHANGED <<inst, frame, built, constructed>>

\* The caller of thread i has taken the result; the thread is free for another call.
Release(i) ==
    /\ pc[i] = "done"
    /\ pc' = [pc EXCEPT ![i] = "idle"]
    /\ frame' = [frame EXCEPT ![i] = NoFrame]
    /\ built' = [built EXCEPT ![i] = <<>>]
    /\ sent' = [sent EXCEPT ![i] = <<>>]
    /\ raised' = [raised EXCEPT ![i] = <<>>]
    /\ result' = [result EXCEPT ![i] = <<>>]
    /\ UNCHANGED <<inst, constructed>>

Next ==
    \E i \in Insts :
        \/ Call_create(i)
        \/ Call_get_all(i)
        \/ Call_get(i)
        \/ Call_delete(i)
        \/ Call_update(i)
        \/ Complete(i)
        \/ Release(i)

Spec == Init /\ [][Next]_vars


\* ------------------------------------------------------------ reading a URL
\* The first position of sub in s, 0 when s does not hold it.
IndexOf(s, sub) ==
    LET hits == {k \in 1..(Len(s) - Len(sub) + 1) : SubSeq(s, k, k + Len(sub) - 1) = sub}
    IN  IF hits = {} THEN 0 ELSE CHOOSE k \in hits : \A m \in hits : k <= m

Scheme(url) == SubSeq(url, 1, IndexOf(url, "://") - 1)
AfterScheme(url) == SubSeq(url, IndexOf(url, "://") + 3, Len(url))
Host(url) ==
    LET r == AfterScheme(url)
        k == IndexOf(r, "/")
    IN  IF k = 0 THEN r ELSE SubSeq(r, 1, k - 1)
UrlPath(url) ==
    LET r == AfterScheme(url)
        k == IndexOf(r, "/")
    IN  IF k = 0 THEN "" ELSE SubSeq(r, k, Len(r))

StartsWith(s, prefix) == Len(prefix) <= Len(s) /\ SubSeq(s, 1, Len(prefix)) = prefix
After(s, prefix) == SubSeq(s, Len(prefix) + 1, Len(s))

\* ------------------------------------------------------------ what the claims speak of
\* Thread i is in a call: its request is at the client, or the call has returned.
Active(i) == pc[i] \in {"called", "done"}

IdOps == {"get", "delete", "update"}

\* The URLs instance i built or sent in its call.
UrlsOf(i) == {built[i][k] : k \in 1..Len(built[i])} \cup {sent[i][k].url : k \in 1..Len(sent[i])}

\* The collection URL written out from the attributes of instance i.
CollectionUrl(i) == inst[i].protocol \o "://" \o inst[i].domain \o "/api/v2/resource-servers"

\* ------------------------------------------------------------ C1
\* C1: for every id string, get(id), delete(id) and update(id, body) pass to the
\* REST client exactly '{protocol}://{domain}/api/v2/resource-servers/{id}', built
\* once in the call, with nothing before or after the id.
C1_IdUrl ==
    \A i \in Insts :
        (Active(i) /\ frame[i].op \in IdOps /\ frame[i].id # None) =>
            /\ Len(built[i]) = 1
            /\ UrlsOf(i) = {CollectionUrl(i) \o "/" \o frame[i].id[1]}
            /\ UrlPath(sent[i][1].url) = "/api/v2/resource-servers/" \o frame[i].id[1]

C1_Witness ==
    /\ pc[1] = "called" /\ frame[1].op = "update" /\ frame[1].id = Some("rs1")
    /\ pc[2] = "done" /\ frame[2].op = "delete" /\ frame[2].id = Some("x/y")

\* ------------------------------------------------------------ C2
\* C2: create(body) sends body, unmodified, as the payload to the collection URL,
\* which carries no id suffix.
C2_CreateBody ==
    \A i \in Insts :
        (Active(i) /\ frame[i].op = "create") =>
            /\ sent[i][1].data = Some(frame[i].body)
            /\ sent[i][1].url = CollectionUrl(i)
            /\ UrlPath(sent[i][1].url) = "/api/v2/resource-servers"

C2_Witness ==
    /\ pc[1] = "done" /\ frame[1].op = "create" /\ frame[1].body # {}
    /\ pc[2] = "called" /\ frame[2].op = "create" /\ frame[2].body = {}

\* ------------------------------------------------------------ C3
\* C3: get_all sends to the collection URL exactly the query parameters page,
\* per_page and include_totals; an absent page or per_page goes as null and
\* include_totals as the string "true" or "false".
C3_GetAllParams ==
    \A i \in Insts :
        (Active(i) /\ frame[i].op = "get_all") =>
            /\ sent[i][1].url = CollectionUrl(i)
            /\ sent[i][1].params # None
            /\ DOMAIN sent[i][1].params[1] = {"page", "per_page", "include_totals"}
            /\ sent[i][1].params[1].page = frame[i].page
            /\ sent[i][1].params[1].per_page = frame[i].per_page
            /\ sent[i][1].params[1].include_totals =
                   (IF frame[i].include_totals THEN "true" ELSE "false")

\* get_all() in thread 1 and get_all(page=2, per_page=10, include_totals=True) in thread 2
C3_Witness ==
    /\ pc[1] = "called" /\ frame[1].op = "get_all"
    /\ frame[1].page = None /\ frame[1].per_page = None
    /\ frame[1].include_totals = DefaultIncludeTotals
    /\ sent[1][1].params[1].include_totals = "false"
    /\ pc[2] = "called" /\ frame[2].op = "get_all"
    /\ frame[2].page = Some(2) /\ frame[2].per_page = Some(10)
    /\ frame[2].include_totals = TRUE
    /\ sent[2][1].params[1].include_totals = "true"

\* ------------------------------------------------------------ C4
\* C4: an error the REST client raises during an operation reaches the caller as
\* the same error: not caught, not rewrapped, not turned into a return value.
C4_ErrorPropagates ==
    \A i \in Insts :
        (pc[i] = "done" /\ raised[i][1].kind = "raise") =>
            result[i] = <<[kind |-> "raise", value |-> raised[i][1].value]>>

\* get("missing-id") failing with not-found, and another operation failing otherwise
C4_Witness ==
    /\ pc[1] = "done" /\ frame[1].op = "get" /\ frame[1].id = Some("rs1")
    /\ raised[1][1] = [kind |-> "raise", value |-> "404 not found"]
    /\ pc[2] = "done" /\ frame[2].op = "create"
    /\ raised[2][1] = [kind |-> "raise", value |-> "429 rate limit"]

\* ------------------------------------------------------------ C5
\* C5: of two instances with different domains, under any interleaving of their
\* calls, every URL an instance sends holds its own domain and protocol and
\* never the domain of the other.
C5_NoCrossContamination ==
    \A i \in Insts : \A j \in Insts :
        (i # j /\ inst[i].domain # inst[j].domain) =>
            \A u \in UrlsOf(i) :
                /\ Host(u) = inst[i].domain
                /\ Scheme(u) = inst[i].protocol
                /\ Host(u) # inst[j].domain

\* both threads have a request at their client at the same time
C5_Witness ==
    /\ inst[1].domain # inst[2].domain
    /\ inst[1].protocol # inst[2].protocol
    /\ pc[1] = "called" /\ pc[2] = "called"
    /\ frame[1].op = "get" /\ frame[2].op = "get_all"

\* ------------------------------------------------------------ C6
\* C6: with protocol "http" instead of "https", for the same domain and
\* arguments, the request differs in the scheme of its URL and in nothing else.
C6_OnlySchemeChanges ==
    \A i \in Insts : \A j \in Insts :
        (/\ Active(i) /\ Active(j)
         /\ frame[i] = frame[j]
         /\ inst[i].domain = inst[j].domain
         /\ inst[i].protocol = "https" /\ inst[j].protocol = "http") =>
            /\ Scheme(sent[i][1].url) = "https"
            /\ Scheme(sent[j][1].url) = "http"
            /\ Host(sent[i][1].url) = Host(sent[j][1].url)
            /\ UrlPath(sent[i][1].url) = UrlPath(sent[j][1].url)
            /\ AfterScheme(sent[i][1].url) = AfterScheme(sent[j][1].url)
            /\ sent[i][1].verb = sent[j][1].verb
            /\ sent[i][1].params = sent[j][1].params
            /\ sent[i][1].data = sent[j][1].data

C6_Witness ==
    /\ inst[1].domain = inst[2].domain
    /\ inst[1].protocol = "https" /\ inst[2].protocol = "http"
    /\ Active(1) /\ Active(2)
    /\ frame[1] = frame[2] /\ frame[1].op = "update" /\ frame[1].id = Some("rs1")

\* ------------------------------------------------------------ C7
\* C7: after any calls, successful or failing, the domain, protocol and REST
\* client of an instance are those construction gave it, and the request of a
\* call is decided by its arguments and these three attributes alone.
C7_NoRetainedState ==
    /\ inst = constructed
    /\ \A i \in Insts : \A j \in Insts :
           (Active(i) /\ Active(j) /\ frame[i] = frame[j] /\ constructed[i] = constructed[j]) =>
               (sent[i][1] = sent[j][1] /\ built[i] = built[j])

\* thread 1 has had a failing call; thread 2 is in the same call of an equal instance
C7_Witness ==
    /\ constructed[1] = constructed[2]
    /\ constructed[1].protocol = "http"
    /\ pc[1] = "done" /\ raised[1][1].kind = "raise"
    /\ pc[2] = "called" /\ frame[2] = frame[1] /\ frame[1].op = "delete"

\* ------------------------------------------------------------ C8
\* C8: no recovery and no retry: a call of an operation issues exactly one REST
\* client call, whether it succeeds or fails, and a failure is reported once.
C8_OneClientCall ==
    \A i \in Insts :
        /\ Active(i) => Len(sent[i]) = 1
        /\ pc[i] = "done" => (Len(raised[i]) = 1 /\ Len(result[i]) = 1)
        /\ pc[i] = "idle" => (sent[i] = <<>> /\ result[i] = <<>>)

C8_Witness ==
    /\ pc[1] = "done" /\ raised[1][1].kind = "raise" /\ frame[1].op = "get_all"
    /\ pc[2] = "done" /\ raised[2][1].kind = "return" /\ frame[2].op = "update"

\* ------------------------------------------------------------ C9
\* C9: each operation calls one REST client verb, with the URL it built, and
\* returns the verb's result unchanged: create POST, get_all and get GET, delete
\* DELETE, update PATCH; update forwards its body as the payload; get and delete
\* send neither a body nor query parameters.
VerbOf(op) ==
    CASE op = "create" -> "POST"
      [] op = "get_all" -> "GET"
      [] op = "get" -> "GET"
      [] op = "delete" -> "DELETE"
      [] op = "update" -> "PATCH"

C9_VerbAndResult ==
    \A i \in Insts :
        /\ Active(i) =>
            /\ Len(sent[i]) = 1
            /\ sent[i][1].verb = VerbOf(frame[i].op)
            /\ built[i] = <<sent[i][1].url>>
            /\ frame[i].op = "update" => sent[i][1].data = Some(frame[i].body)
            /\ frame[i].op \in {"get", "delete"} =>
                   (sent[i][1].data = None /\ sent[i][1].params = None)
        /\ (pc[i] = "done" /\ raised[i][1].kind = "return") => result[i] = raised[i]

C9_Witness ==
    /\ pc[1] = "done" /\ frame[1].op = "update" /\ frame[1].body # {}
    /\ raised[1][1].kind = "return" /\ result[1][1].value = "response"
    /\ pc[2] = "done" /\ frame[2].op = "delete" /\ raised[2][1].kind = "return"

\* ------------------------------------------------------------ C10
\* C10: every outgoing URL is the collection URL, followed by '/{id}' exactly
\* when the id passed is not None: never for create and get_all; for get,
\* delete and update an empty-string id gives the collection URL with a
\* trailing '/', and a None id the bare collection URL.
C10_UrlShape ==
    \A i \in Insts : \A u \in UrlsOf(i) :
        /\ StartsWith(u, CollectionUrl(i))
        /\ After(u, CollectionUrl(i)) =
               (IF frame[i].op \in IdOps /\ frame[i].id # None
                THEN "/" \o frame[i].id[1]
                ELSE "")
        /\ (frame[i].op \in IdOps /\ frame[i].id = Some("")) => u = CollectionUrl(i) \o "/"
        /\ (frame[i].op \in IdOps /\ frame[i].id = None) => u = CollectionUrl(i)

C10_Witness ==
    /\ pc[1] = "called" /\ frame[1].op = "get" /\ frame[1].id = Some("")
    /\ pc[2] = "called" /\ frame[2].op = "delete" /\ frame[2].id = None

=============================================================================
